---- MODULE Spec2Model ----
(***************************************************************************)
(* A model of the tiny-gameboy instruction core: the register file and its *)
(* flag byte (src/src/cpu/registers.rs), the instruction set and its       *)
(* decoder (src/src/cpu/instructions.rs), the memory bus                   *)
(* (src/src/memory.rs), the video unit and its tile cache (src/src/gpu.rs) *)
(* and the execution engine (src/src/cpu/cpu.rs).                          *)
(*                                                                         *)
(* The two big arrays (MemoryBus::memory and GPU::memory) and the tile     *)
(* cache are kept as finite maps that hold only the cells that differ from *)
(* the fill value; a cell outside the map's domain holds the fill value.   *)
(* A Rust panic is the value of the variable failure; once it is set the   *)
(* process is gone and no operation runs any more.                         *)
(***************************************************************************)
EXTENDS Integers, Sequences, FiniteSets, TLC

VARIABLES
    registers,        \* CPU::registers: a, b, c, d, e, h, l and the flags f
    pc,               \* CPU::pc
    sp,               \* CPU::sp
    memory,           \* MemoryBus::memory, [u8; 0xFFFF], cells that are not 0
    gpu_memory,       \* GPU::memory, [u8; VRAM_SIZE], cells that are not 0
    tiles,            \* GPU::tiles, [Tile; 384], rows that differ from tile_fill
    tile_fill,        \* the shade of every pixel of a row tiles does not hold
    is_halted,        \* CPU::is_halted
    failure,          \* "none", or the panic that ended the process
    overflow_checks,  \* the build profile: TRUE when `+` panics on overflow
    last,             \* the call made last, its arguments, result and pre-state
    prev,             \* the call made before last
    steps             \* number of calls made so far

vars == <<registers, pc, sp, memory, gpu_memory, tiles, tile_fill, is_halted,
          failure, overflow_checks, last, prev, steps>>

----------------------------------------------------------------------------
(* Bounds of the model. *)

\* Calls in one behaviour.
MaxSteps == 2

----------------------------------------------------------------------------
(* Program constants. *)

ZERO_FLAG_BYTE_POSITION == 7
SUBTRACT_FLAG_BYTE_POSITION == 6
HALF_CARRY_FLAG_BYTE_POSITION == 5
CARRY_FLAG_BYTE_POSITION == 4

\* gpu.rs: VRAM_BEGIN = 0x8000, VRAM_END = 0x9FFF
VRAM_BEGIN == 32768
VRAM_END == 40959
VRAM_SIZE == VRAM_END - VRAM_BEGIN + 1

\* memory.rs: memory: [u8; 0xFFFF]
MEMORY_LEN == 65535

\* gpu.rs: tiles: [Tile; 384]; `if address >= 0x1800 { return; }`
TILE_COUNT == 384
TILE_DATA_END == 6144

\* The prefix lead-in byte 0xCB of CPU::step.
PREFIX_BYTE == 203

U8 == 0 .. 255
U16 == 0 .. 65535

----------------------------------------------------------------------------
(* Integer helpers: the shifts and masks of the source on naturals.        *)

RECURSIVE Pow2(_)
Pow2(n) == IF n = 0 THEN 1 ELSE 2 * Pow2(n - 1)

\* x >> n
Shr(x, n) == x \div Pow2(n)

\* x << n
Shl(x, n) == x * Pow2(n)

\* (x >> n) & 1
Bit(x, n) == Shr(x, n) % 2

U8_MODULUS == Pow2(8)
U16_MODULUS == Pow2(16)

\* u16::wrapping_add, u16::wrapping_sub
wrapping_add(x, n) == (x + n) % U16_MODULUS
wrapping_sub(x, n) == (x - n + U16_MODULUS) % U16_MODULUS

----------------------------------------------------------------------------
(* utils.rs *)

\* ((value & 0xFF00) >> 8) as u8
get_msb(value) == (value \div 256) % 256

\* (value & 0xFF) as u8
get_lsb(value) == value % 256

\* ((msb as u16) << 8) | lsb as u16 : the two operands share no bit
get_u16(msb, lsb) == Shl(msb, 8) + lsb

----------------------------------------------------------------------------
(* registers.rs *)

FlagsRegisters == [zero : BOOLEAN, subtract : BOOLEAN,
                   half_carry : BOOLEAN, carry : BOOLEAN]

B2N(b) == IF b THEN 1 ELSE 0

\* From<FlagsRegister> with the carry flag shifted one position too low.
FlagsToU8_carry_to_bit_3(flags) ==
      Shl(B2N(flags.zero), ZERO_FLAG_BYTE_POSITION)
    + Shl(B2N(flags.subtract), SUBTRACT_FLAG_BYTE_POSITION)
    + Shl(B2N(flags.half_carry), HALF_CARRY_FLAG_BYTE_POSITION)
    + Shl(B2N(flags.carry), CARRY_FLAG_BYTE_POSITION - 1)

\* impl From<FlagsRegister> for u8 : the four shifted bits share no position
FlagsToU8(flags) ==
      Shl(B2N(flags.zero), ZERO_FLAG_BYTE_POSITION)
    + Shl(B2N(flags.subtract), SUBTRACT_FLAG_BYTE_POSITION)
    + Shl(B2N(flags.half_carry), HALF_CARRY_FLAG_BYTE_POSITION)
    + Shl(B2N(flags.carry), CARRY_FLAG_BYTE_POSITION)

\* From<u8> with the carry flag read one bit too low.
FlagsFromU8_carry_from_bit_3(byte) ==
    [zero       |-> Bit(byte, ZERO_FLAG_BYTE_POSITION) # 0,
     subtract   |-> Bit(byte, SUBTRACT_FLAG_BYTE_POSITION) # 0,
     half_carry |-> Bit(byte, HALF_CARRY_FLAG_BYTE_POSITION) # 0,
     carry      |-> Bit(byte, CARRY_FLAG_BYTE_POSITION - 1) # 0]

\* impl From<u8> for FlagsRegister
FlagsFromU8(byte) ==
    [zero       |-> Bit(byte, ZERO_FLAG_BYTE_POSITION) # 0,
     subtract   |-> Bit(byte, SUBTRACT_FLAG_BYTE_POSITION) # 0,
     half_carry |-> Bit(byte, HALF_CARRY_FLAG_BYTE_POSITION) # 0,
     carry      |-> Bit(byte, CARRY_FLAG_BYTE_POSITION) # 0]

get_bc(r) == Shl(r.b, 8) + r.c
get_de(r) == Shl(r.d, 8) + r.e
get_hl(r) == Shl(r.h, 8) + r.l

set_bc(r, value) == [r EXCEPT !.b = get_msb(value), !.c = get_lsb(value)]
set_de(r, value) == [r EXCEPT !.d = get_msb(value), !.e = get_lsb(value)]
\* set_hl with the two bytes exchanged.
set_hl_bytes_exchanged(r, value) ==
    [r EXCEPT !.h = get_lsb(value), !.l = get_msb(value)]
set_hl(r, value) == [r EXCEPT !.h = get_msb(value), !.l = get_lsb(value)]

----------------------------------------------------------------------------
(* instructions.rs *)

ArithmeticTarget == {"A", "B", "C", "D", "E", "F", "H", "L"}
JumpType == {"NotZero", "Zero", "NotCarry", "Carry", "Always"}
LoadByteTarget == {"A", "B", "C", "D", "E", "H", "L", "HLI"}
LoadByteSource == {"A", "B", "C", "D", "E", "H", "L", "D8", "HLI"}
LoadTargetFromA == {"BC", "DE", "D16"}
LoadAFromSource == {"BC", "DE", "D16"}
PushSource == {"BC", "DE", "HL", "AF"}
PopTarget == {"BC", "DE", "HL", "AF"}

\* An Instruction value: op is the variant, kind the LoadType variant of an LD,
\* x and y the operand tags ("-" where the variant has none).
Ins(op, kind, x, y) == [op |-> op, kind |-> kind, x |-> x, y |-> y]

ADD(target) == Ins("ADD", "-", target, "-")
JP(jump_type) == Ins("JP", "-", jump_type, "-")
LD_Byte(target, source) == Ins("LD", "Byte", target, source)
LD_FromA(target) == Ins("LD", "FromA", target, "-")
LD_ToA(source) == Ins("LD", "ToA", source, "-")
PUSH(source) == Ins("PUSH", "-", source, "-")
POP(target) == Ins("POP", "-", target, "-")
CALL(jump_type) == Ins("CALL", "-", jump_type, "-")
RET(jump_type) == Ins("RET", "-", jump_type, "-")
NOP == Ins("NOP", "-", "-", "-")
HALT == Ins("HALT", "-", "-", "-")
NoInstruction == Ins("-", "-", "-", "-")

Instruction ==
    {ADD(t) : t \in ArithmeticTarget}
    \cup {JP(j) : j \in JumpType}
    \cup {LD_Byte(t, s) : t \in LoadByteTarget, s \in LoadByteSource}
    \cup {LD_FromA(t) : t \in LoadTargetFromA}
    \cup {LD_ToA(s) : s \in LoadAFromSource}
    \cup {PUSH(s) : s \in PushSource}
    \cup {POP(t) : t \in PopTarget}
    \cup {CALL(j) : j \in JumpType}
    \cup {RET(j) : j \in JumpType}
    \cup {NOP, HALT}

\* The instructions of one variant of the enum.
OfVariant(op) == {i \in Instruction : i.op = op}

\* JumpType::should_jump
should_jump(jump_type, flags) ==
    CASE jump_type = "NotZero"  -> ~flags.zero
      [] jump_type = "Zero"     -> flags.zero
      [] jump_type = "NotCarry" -> ~flags.carry
      [] jump_type = "Carry"    -> flags.carry
      [] jump_type = "Always"   -> TRUE

\* Instruction::from_opcode_prefixed : 0x02 => None, _ => None
from_opcode_prefixed(opcode) == IF opcode = 2 THEN {} ELSE {}

\* Instruction::from_opcode_not_prefixed : 0x02 => None, _ => None
from_opcode_not_prefixed(opcode) == IF opcode = 2 THEN {} ELSE {}

\* Instruction::from_opcode : an Option, the empty set for None and a
\* singleton for Some
from_opcode(opcode, prefixed) ==
    IF prefixed THEN from_opcode_prefixed(opcode)
    ELSE from_opcode_not_prefixed(opcode)

----------------------------------------------------------------------------
(* The arrays as finite maps over the cells that differ from the fill.     *)

Load(map, i, fill) == IF i \in DOMAIN map THEN map[i] ELSE fill

Store(map, i, v, fill) ==
    IF v = fill
    THEN [j \in DOMAIN map \ {i} |-> map[j]]
    ELSE [j \in DOMAIN map \cup {i} |-> IF j = i THEN v ELSE map[j]]

EmptyMap == [j \in {} |-> 0]

----------------------------------------------------------------------------
(* The machine: the CPU with the bus and the video unit it owns, as one    *)
(* value the operations below take and return.                             *)

Machine ==
    [registers |-> registers, pc |-> pc, sp |-> sp, memory |-> memory,
     gpu_memory |-> gpu_memory, tiles |-> tiles, is_halted |-> is_halted,
     failure |-> failure]

Fail(m, why) == [m EXCEPT !.failure = why]

Ok(m) == m.failure = "none"

\* The result of an operation that returns a value.
Result(m, v) == [m |-> m, v |-> v]

OUT_OF_BOUNDS == "index out of bounds"
ADD_OVERFLOW == "attempt to add with overflow"
UNKNOWN_INSTRUCTION == "Unkown instruction found"
NOT_IMPLEMENTED == "not yet implemented"

----------------------------------------------------------------------------
(* gpu.rs *)

TilePixelValue == {"White", "Gray", "Light", "Black"}

\* One row of a tile all of one shade; empty_tile() is eight rows of "Gray".
FillRow(shade) == [k \in 1 .. 8 |-> shade]

EMPTY_TILE_SHADE == "Gray"

\* self.tiles[tile][row], columns 0..7 as positions 1..8
TileRow(m, tile, row) == Load(m.tiles, <<tile, row>>, FillRow(tile_fill))

\* The match with its two mixed arms exchanged, as if the tuple were
\* (l_ls_byte != 0, l_ms_byte != 0).
PixelValue_planes_exchanged(ms_set, ls_set) ==
    CASE ms_set /\ ls_set     -> "White"
      [] ms_set /\ ~ls_set    -> "Light"
      [] ~ms_set /\ ls_set    -> "Gray"
      [] ~ms_set /\ ~ls_set   -> "Black"

\* The match of GPU::write_memory on (l_ms_byte != 0, l_ls_byte != 0).
PixelValue(ms_set, ls_set) ==
    CASE ms_set /\ ls_set     -> "White"
      [] ms_set /\ ~ls_set    -> "Gray"
      [] ~ms_set /\ ls_set    -> "Light"
      [] ~ms_set /\ ~ls_set   -> "Black"

\* The loop of GPU::write_memory: pixel_address in 0..8, mask = 1 << (7 - pixel_address)
DecodeRow(ms_byte, ls_byte) ==
    [k \in 1 .. 8 |->
        PixelValue(Bit(ms_byte, 7 - (k - 1)) # 0, Bit(ls_byte, 7 - (k - 1)) # 0)]

\* The address as it is, without the mask.
normalized_address_unmasked(address) == address % U16_MODULUS

\* address & 0xFFFE
normalized_address(address) == (address % U16_MODULUS) - (address % 2)

\* GPU::read_memory
gpu_read_memory(m, address) ==
    IF ~Ok(m) THEN Result(m, 0)
    ELSE IF address >= VRAM_SIZE THEN Result(Fail(m, OUT_OF_BOUNDS), 0)
    ELSE Result(m, Load(m.gpu_memory, address, 0))

\* write_memory with the row taken as address % 8.
gpu_write_memory_row_from_low_bits(m, address, value) ==
    IF ~Ok(m) THEN m
    ELSE IF address >= VRAM_SIZE THEN Fail(m, OUT_OF_BOUNDS)
    ELSE
      LET m1 == [m EXCEPT !.gpu_memory = Store(m.gpu_memory, address, value, 0)]
      IN  IF address >= TILE_DATA_END THEN m1
          ELSE
            LET na == normalized_address(address)
                ms_byte == Load(m1.gpu_memory, na, 0)
                ls_byte == Load(m1.gpu_memory, na + 1, 0)
                tile_address == address \div 16
                row_address == address % 8
            IN  IF na + 1 >= VRAM_SIZE \/ tile_address >= TILE_COUNT
                THEN Fail(m1, OUT_OF_BOUNDS)
                ELSE [m1 EXCEPT !.tiles =
                        Store(m1.tiles, <<tile_address, row_address>>,
                              DecodeRow(ms_byte, ls_byte), FillRow(tile_fill))]

\* GPU::write_memory
gpu_write_memory(m, address, value) ==
    IF ~Ok(m) THEN m
    ELSE IF address >= VRAM_SIZE THEN Fail(m, OUT_OF_BOUNDS)
    ELSE
      LET m1 == [m EXCEPT !.gpu_memory = Store(m.gpu_memory, address, value, 0)]
      IN  IF address >= TILE_DATA_END THEN m1
          ELSE
            LET na == normalized_address(address)
                ms_byte == Load(m1.gpu_memory, na, 0)
                ls_byte == Load(m1.gpu_memory, na + 1, 0)
                tile_address == address \div 16
                row_address == (address % 16) \div 2
            IN  IF na + 1 >= VRAM_SIZE \/ tile_address >= TILE_COUNT
                THEN Fail(m1, OUT_OF_BOUNDS)
                ELSE [m1 EXCEPT !.tiles =
                        Store(m1.tiles, <<tile_address, row_address>>,
                              DecodeRow(ms_byte, ls_byte), FillRow(tile_fill))]

----------------------------------------------------------------------------
(* memory.rs *)

\* address as usize - VRAM_BEGIN
get_vram_address(address) == address - VRAM_BEGIN

\* The match arm VRAM_BEGIN..VRAM_END of read_byte and write_byte: a range
\* that excludes its upper end.
InVramArm(address) == VRAM_BEGIN <= address /\ address < VRAM_END

\* MemoryBus::read_byte
read_byte(m, address) ==
    IF ~Ok(m) THEN Result(m, 0)
    ELSE IF InVramArm(address)
         THEN gpu_read_memory(m, get_vram_address(address))
    ELSE IF address >= MEMORY_LEN THEN Result(Fail(m, OUT_OF_BOUNDS), 0)
    ELSE Result(m, Load(m.memory, address, 0))

\* MemoryBus::write_byte
write_byte(m, address, value) ==
    IF ~Ok(m) THEN m
    ELSE IF InVramArm(address)
         THEN gpu_write_memory(m, get_vram_address(address), value)
    ELSE IF address >= MEMORY_LEN THEN Fail(m, OUT_OF_BOUNDS)
    ELSE [m EXCEPT !.memory = Store(m.memory, address, value, 0)]

----------------------------------------------------------------------------
(* cpu.rs *)

\* `x + n` on u16, as in self.pc + 1: a build with overflow checks panics
\* when the sum leaves the type, a build without them wraps.
checked_add(m, x, n) ==
    IF ~Ok(m) THEN Result(m, 0)
    ELSE IF x + n >= U16_MODULUS /\ overflow_checks
         THEN Result(Fail(m, ADD_OVERFLOW), 0)
    ELSE Result(m, (x + n) % U16_MODULUS)

\* CPU::read_next_byte
read_next_byte(m) ==
    LET a1 == checked_add(m, m.pc, 1)
    IN  read_byte(a1.m, a1.v)

\* CPU::read_next_word
read_next_word(m) ==
    LET a1 == checked_add(m, m.pc, 1)
        least_significant_byte == read_byte(a1.m, a1.v)
        a2 == checked_add(least_significant_byte.m, m.pc, 2)
        most_significant_byte == read_byte(a2.m, a2.v)
    IN  Result(most_significant_byte.m,
               get_u16(most_significant_byte.v, least_significant_byte.v))

\* CPU::decode : the instruction of a Some, a panic on None
decode(m, instruction_byte, prefixed) ==
    LET found == from_opcode(instruction_byte, prefixed)
    IN  IF ~Ok(m) THEN Result(m, NoInstruction)
        ELSE IF found # {} THEN Result(m, CHOOSE i \in found : TRUE)
        ELSE Result(Fail(m, UNKNOWN_INSTRUCTION), NoInstruction)

\* add with the zero flag cleared instead of recomputed from the result.
add_zero_cleared(m, value) ==
    LET sum == m.registers.a + value
        new_value == sum % U8_MODULUS
        did_overflow == sum >= U8_MODULUS
        f1 == [m.registers.f EXCEPT
                 !.zero = FALSE,
                 !.subtract = FALSE,
                 !.carry = did_overflow,
                 !.half_carry = ((m.registers.a % 16) + (value % 16) > 15)]
    IN  Result([m EXCEPT !.registers.f = f1], new_value)

\* CPU::add
add(m, value) ==
    LET sum == m.registers.a + value
        new_value == sum % U8_MODULUS
        did_overflow == sum >= U8_MODULUS
        f1 == [m.registers.f EXCEPT
                 !.zero = (new_value = 0),
                 !.subtract = FALSE,
                 !.carry = did_overflow,
                 !.half_carry = ((m.registers.a % 16) + (value % 16) > 15)]
    IN  Result([m EXCEPT !.registers.f = f1], new_value)

\* CPU::jump
jump(m, should) ==
    IF should THEN read_next_word(m)
    ELSE Result(m, wrapping_add(m.pc, 3))

\* CPU::push
push(m, value) ==
    LET m1 == [m EXCEPT !.sp = wrapping_sub(m.sp, 1)]
        m2 == write_byte(m1, m1.sp, get_msb(value))
        m3 == IF Ok(m2) THEN [m2 EXCEPT !.sp = wrapping_sub(m2.sp, 1)] ELSE m2
    IN  IF ~Ok(m) THEN m ELSE write_byte(m3, m3.sp, get_lsb(value))

\* CPU::pop
pop(m) ==
    LET least_significant_byte == read_byte(m, m.sp)
        m1 == least_significant_byte.m
        m2 == IF Ok(m1) THEN [m1 EXCEPT !.sp = wrapping_add(m1.sp, 1)] ELSE m1
        most_significant_byte == read_byte(m2, m2.sp)
        m3 == most_significant_byte.m
        m4 == IF Ok(m3) THEN [m3 EXCEPT !.sp = wrapping_add(m3.sp, 1)] ELSE m3
    IN  Result(m4, get_u16(most_significant_byte.v, least_significant_byte.v))

\* CPU::call
call(m, should) ==
    LET next_pc == wrapping_add(m.pc, 3)
    IN  IF should THEN read_next_word(push(m, next_pc))
        ELSE Result(m, next_pc)

\* CPU::return_
return_(m, should) ==
    IF should THEN pop(m)
    ELSE Result(m, wrapping_add(m.pc, 1))

\* The value a byte LD reads: the match on source in CPU::execute.
load_source(m, source) ==
    CASE source = "A"   -> Result(m, m.registers.a)
      [] source = "B"   -> Result(m, m.registers.b)
      [] source = "C"   -> Result(m, m.registers.c)
      [] source = "D"   -> Result(m, m.registers.d)
      [] source = "E"   -> Result(m, m.registers.e)
      [] source = "H"   -> Result(m, m.registers.h)
      [] source = "L"   -> Result(m, m.registers.l)
      [] source = "D8"  -> read_next_byte(m)
      [] source = "HLI" -> read_byte(m, get_hl(m.registers))

\* The write of a byte LD: the match on target in CPU::execute.
load_target(m, target, source_value) ==
    IF ~Ok(m) THEN m
    ELSE CASE target = "A"   -> [m EXCEPT !.registers.a = source_value]
           [] target = "B"   -> [m EXCEPT !.registers.b = source_value]
           [] target = "C"   -> [m EXCEPT !.registers.c = source_value]
           [] target = "D"   -> [m EXCEPT !.registers.d = source_value]
           [] target = "E"   -> [m EXCEPT !.registers.e = source_value]
           [] target = "H"   -> [m EXCEPT !.registers.h = source_value]
           [] target = "L"   -> [m EXCEPT !.registers.l = source_value]
           [] target = "HLI" -> write_byte(m, get_hl(m.registers), source_value)

\* The arm LD(Byte(target, source)) of CPU::execute.
execute_ld_byte(m, target, source) ==
    LET source_value == load_source(m, source)
        m1 == load_target(source_value.m, target, source_value.v)
    IN  Result(m1, IF source = "D8" THEN wrapping_add(m.pc, 2)
                   ELSE wrapping_add(m.pc, 1))

\* The arm ADD(target) of CPU::execute: only ArithmeticTarget::C adds.
execute_add(m, target) ==
    IF target = "C"
    THEN LET new_value == add(m, m.registers.c)
         IN  Result([new_value.m EXCEPT !.registers.a = new_value.v],
                    wrapping_add(m.pc, 1))
    ELSE Result(m, m.pc)

\* The arm PUSH(source) of CPU::execute.
execute_push(m, source) ==
    LET source_value ==
            CASE source = "AF" -> get_u16(m.registers.a, FlagsToU8(m.registers.f))
              [] source = "BC" -> get_bc(m.registers)
              [] source = "DE" -> get_de(m.registers)
              [] source = "HL" -> get_hl(m.registers)
    IN  Result(push(m, source_value), wrapping_add(m.pc, 1))

\* The arm POP(target) of CPU::execute.
execute_pop(m, target) ==
    LET value == pop(m)
        m1 == value.m
        r == m1.registers
        r1 == CASE target = "AF" ->
                     [r EXCEPT !.a = get_msb(value.v),
                               !.f = FlagsFromU8(get_lsb(value.v))]
                [] target = "BC" -> set_bc(r, value.v)
                [] target = "DE" -> set_de(r, value.v)
                [] target = "HL" -> set_hl(r, value.v)
    IN  Result(IF Ok(m1) THEN [m1 EXCEPT !.registers = r1] ELSE m1,
               wrapping_add(m.pc, 1))

\* execute with PUSH and POP taken before the halted test.
execute_halted_check_after_stack(m, instruction) ==
    IF ~Ok(m) THEN Result(m, m.pc)
    ELSE IF m.is_halted /\ instruction.op \notin {"PUSH", "POP"}
         THEN Result(m, m.pc)
    ELSE CASE instruction.op = "ADD" -> execute_add(m, instruction.x)
           [] instruction.op = "JP" ->
                jump(m, should_jump(instruction.x, m.registers.f))
           [] instruction.op = "LD" /\ instruction.kind = "Byte" ->
                execute_ld_byte(m, instruction.x, instruction.y)
           [] instruction.op = "LD" /\ instruction.kind # "Byte" ->
                Result(Fail(m, NOT_IMPLEMENTED), m.pc)
           [] instruction.op = "PUSH" -> execute_push(m, instruction.x)
           [] instruction.op = "POP" -> execute_pop(m, instruction.x)
           [] instruction.op = "CALL" ->
                call(m, should_jump(instruction.x, m.registers.f))
           [] instruction.op = "RET" ->
                return_(m, should_jump(instruction.x, m.registers.f))
           [] instruction.op = "NOP" -> Result(m, wrapping_add(m.pc, 1))
           [] instruction.op = "HALT" -> Result([m EXCEPT !.is_halted = TRUE], m.pc)
           [] OTHER -> Result(Fail(m, NOT_IMPLEMENTED), m.pc)

\* CPU::execute : the machine after the instruction and the pc it returns.
execute(m, instruction) ==
    IF ~Ok(m) THEN Result(m, m.pc)
    ELSE IF m.is_halted THEN Result(m, m.pc)
    ELSE CASE instruction.op = "ADD" -> execute_add(m, instruction.x)
           [] instruction.op = "JP" ->
                jump(m, should_jump(instruction.x, m.registers.f))
           [] instruction.op = "LD" /\ instruction.kind = "Byte" ->
                execute_ld_byte(m, instruction.x, instruction.y)
           [] instruction.op = "LD" /\ instruction.kind # "Byte" ->
                Result(Fail(m, NOT_IMPLEMENTED), m.pc)
           [] instruction.op = "PUSH" -> execute_push(m, instruction.x)
           [] instruction.op = "POP" -> execute_pop(m, instruction.x)
           [] instruction.op = "CALL" ->
                call(m, should_jump(instruction.x, m.registers.f))
           [] instruction.op = "RET" ->
                return_(m, should_jump(instruction.x, m.registers.f))
           [] instruction.op = "NOP" -> Result(m, wrapping_add(m.pc, 1))
           [] instruction.op = "HALT" -> Result([m EXCEPT !.is_halted = TRUE], m.pc)
           [] OTHER -> Result(Fail(m, NOT_IMPLEMENTED), m.pc)

\* `self.pc = self.execute(instruction)` : the pc is assigned when execute
\* returns, and not when it panics.
assign_pc(r) == IF Ok(r.m) THEN [r.m EXCEPT !.pc = r.v] ELSE r.m

\* CPU::step
step(m) ==
    LET first == read_byte(m, m.pc)
        prefixed == first.v = PREFIX_BYTE
        a1 == checked_add(first.m, m.pc, 1)
        second == read_byte(a1.m, a1.v)
        fetched == IF Ok(first.m) /\ prefixed THEN second ELSE first
        instruction == decode(fetched.m, fetched.v, prefixed)
    IN  assign_pc(execute(instruction.m, instruction.v))

----------------------------------------------------------------------------
(* The state machine: every action is one call on the CPU, its bus or its  *)
(* video unit, made by the code that owns them.                            *)

\* A call as last keeps it: its name, its arguments, what it returned and the
\* machine it was made on.
Call(name, instruction, address, value, ret) ==
    [call |-> name, instruction |-> instruction, address |-> address,
     value |-> value, prefixed |-> FALSE, ret |-> ret, pre |-> Machine]

\* The machine becomes m and the call c is kept.
Becomes(m, c) ==
    /\ registers' = m.registers
    /\ pc' = m.pc
    /\ sp' = m.sp
    /\ memory' = m.memory
    /\ gpu_memory' = m.gpu_memory
    /\ tiles' = m.tiles
    /\ is_halted' = m.is_halted
    /\ failure' = m.failure
    /\ last' = c
    /\ prev' = last
    /\ steps' = steps + 1
    /\ UNCHANGED <<tile_fill, overflow_checks>>

\* The process is alive and the behaviour has calls left.
CanCall == failure = "none" /\ steps < MaxSteps

\* self.pc = self.execute(instruction)
Execute(instruction) ==
    /\ CanCall
    /\ LET r == execute(Machine, instruction)
       IN  Becomes(assign_pc(r), Call("execute", instruction, 0, 0, r.v))

\* cpu.decode(instruction_byte, prefixed) : the instruction it returns is
\* kept as the call's instruction
Decode(instruction_byte, prefixed) ==
    /\ CanCall
    /\ LET r == decode(Machine, instruction_byte, prefixed)
       IN  Becomes(r.m, [Call("decode", r.v, 0, instruction_byte, 0)
                            EXCEPT !.prefixed = prefixed])

\* cpu.step()
Step ==
    /\ CanCall
    /\ Becomes(step(Machine), Call("step", NoInstruction, 0, 0, 0))

\* cpu.push(value)
Push(value) ==
    /\ CanCall
    /\ Becomes(push(Machine, value), Call("push", NoInstruction, 0, value, 0))

\* cpu.pop()
Pop ==
    /\ CanCall
    /\ LET r == pop(Machine)
       IN  Becomes(r.m, Call("pop", NoInstruction, 0, 0, r.v))

\* bus.write_byte(address, value)
WriteByte(address, value) ==
    /\ CanCall
    /\ Becomes(write_byte(Machine, address, value),
               Call("write_byte", NoInstruction, address, value, 0))

\* bus.read_byte(address)
ReadByte(address) ==
    /\ CanCall
    /\ LET r == read_byte(Machine, address)
       IN  Becomes(r.m, Call("read_byte", NoInstruction, address, 0, r.v))

\* gpu.write_memory(address, value)
WriteMemory(address, value) ==
    /\ CanCall
    /\ Becomes(gpu_write_memory(Machine, address, value),
               Call("write_memory", NoInstruction, address, value, 0))

\* gpu.read_memory(address)
ReadMemory(address) ==
    /\ CanCall
    /\ LET r == gpu_read_memory(Machine, address)
       IN  Becomes(r.m, Call("read_memory", NoInstruction, address, 0, r.v))

----------------------------------------------------------------------------
(* Initial states. The source has no constructor: the arrays start zeroed, *)
(* the tile cache as empty_tile(), and a loader writes the program bytes   *)
(* through the bus before the first call.                                  *)

ZeroFlags == [zero |-> FALSE, subtract |-> FALSE, half_carry |-> FALSE,
              carry |-> FALSE]
SetFlags == [zero |-> TRUE, subtract |-> TRUE, half_carry |-> TRUE,
             carry |-> TRUE]

PowerOn ==
    [registers |-> [a |-> 0, b |-> 0, c |-> 0, d |-> 0, e |-> 0, h |-> 0,
                    l |-> 0, f |-> ZeroFlags],
     pc |-> 0, sp |-> 0, memory |-> EmptyMap, gpu_memory |-> EmptyMap,
     tiles |-> EmptyMap, is_halted |-> FALSE, failure |-> "none"]

\* The loader's write of one byte: an address without a cell is left out.
LoadByte(m, address, value) ==
    IF ~InVramArm(address) /\ address >= MEMORY_LEN THEN m
    ELSE write_byte(m, address, value)

\* Three bytes at address, address + 1 and address + 2 (modulo 65536).
LoadBytes(m, address, b0, b1, b2) ==
    LoadByte(LoadByte(LoadByte(m, address, b0),
                      wrapping_add(address, 1), b1),
             wrapping_add(address, 2), b2)

\* The variables start as machine m under build profile oc.
StartAs(m, fill, oc) ==
    /\ tile_fill = fill
    /\ overflow_checks = oc
    /\ registers = m.registers
    /\ pc = m.pc
    /\ sp = m.sp
    /\ memory = m.memory
    /\ gpu_memory = m.gpu_memory
    /\ tiles = m.tiles
    /\ is_halted = m.is_halted
    /\ failure = m.failure
    /\ last = Call("none", NoInstruction, 0, 0, 0)
    /\ prev = last
    /\ steps = 0

----------------------------------------------------------------------------
(* The bus on its own: reads and writes over the address space.            *)

\* 0x0000, 0x7FFF, 0x8000, 0x8001, 0x97FF, 0x9800, 0x9FFE, 0x9FFF, 0xA000,
\* 0xFFFE, 0xFFFF: the ends of the address space and of the video sub-range
BusAddresses ==
    {0, 32767, 32768, 32769, 38911, 38912, 40958, 40959, 40960, 65534, 65535}

BusValues == {0, 128, 255}

InitBus == \E oc \in BOOLEAN : StartAs(PowerOn, EMPTY_TILE_SHADE, oc)

NextBus ==
    \E address \in BusAddresses :
        \/ ReadByte(address)
        \/ \E value \in BusValues : WriteByte(address, value)

SpecBus == InitBus /\ [][NextBus]_vars

BusCall == last.call \in {"read_byte", "write_byte"}

\* The video sub-range of the specification: 0x8000..=0x9FFF, both ends in.
InVideoRange(address) == VRAM_BEGIN <= address /\ address <= VRAM_END

\* C3: read_byte and write_byte resolve every address 0x0000..=0xFFFF to a
\* storage slot and never fail.
C3_BusTotal == BusCall => failure = "none"

\* C4: a call that completes has used the Video Unit at offset
\* address - 0x8000 exactly for the addresses 0x8000..=0x9FFF (0x9FFF at
\* offset 0x1FFF), and plain storage at index address for every other one.
C4_RoutesInclusiveRange ==
    LET a == last.address
        off == a - VRAM_BEGIN
    IN  /\ (last.call = "write_byte" /\ failure = "none") =>
              IF InVideoRange(a)
              THEN /\ Load(gpu_memory, off, 0) = last.value
                   /\ memory = last.pre.memory
              ELSE /\ Load(memory, a, 0) = last.value
                   /\ gpu_memory = last.pre.gpu_memory
        /\ (last.call = "read_byte" /\ failure = "none") =>
              IF InVideoRange(a)
              THEN last.ret = Load(gpu_memory, off, 0)
              ELSE last.ret = Load(memory, a, 0)

\* C5: for every address of 0x8000..=0x9FFF a write leaves plain storage as
\* it was, and a read of the same address right after it returns the value
\* written.
C5_BusIsolation ==
    /\ (last.call = "write_byte" /\ InVideoRange(last.address)) =>
          /\ failure = "none"
          /\ memory = last.pre.memory
    /\ (/\ last.call = "read_byte"
        /\ prev.call = "write_byte"
        /\ prev.address = last.address
        /\ InVideoRange(last.address)) =>
          /\ failure = "none"
          /\ last.ret = prev.value

----------------------------------------------------------------------------
(* The stack: CALL, RET, PUSH and POP, and push and pop called directly.   *)

\* 0x0100, 0x7FFE (operands on both sides of 0x8000), 0xFFFC, 0xFFFD, 0xFFFE,
\* 0xFFFF (operands at the end of the address space and beyond it)
StackPcs == {256, 32766, 65532, 65533, 65534, 65535}

\* 0x0000, 0x0001, 0x0002 (a push wraps below 0x0000), 0x0103 (a push of a
\* CALL at 0x0100 lands on its operands), 0x8001 and 0xA000 (a push lands in
\* the video sub-range), 0xFFFE, 0xFFFF (a pop reaches the end)
StackSps == {0, 1, 2, 259, 32769, 40960, 65534, 65535}

\* 0xBEEF, 0x0000, 0x12FF
StackValues == {48879, 0, 4863}

\* The CALL or JP opcode position holds 0x00; its operand is 0x1234.
StackProgram(at) == LoadBytes(PowerOn, at, 0, 52, 18)

StackRegisters(f) ==
    [a |-> 18, b |-> 190, c |-> 239, d |-> 222, e |-> 173, h |-> 202,
     l |-> 254, f |-> f]

InitStack ==
    \E at \in StackPcs, s \in StackSps, f \in {ZeroFlags, SetFlags},
       oc \in BOOLEAN :
        StartAs([StackProgram(at) EXCEPT !.pc = at, !.sp = s,
                                         !.registers = StackRegisters(f)],
                EMPTY_TILE_SHADE, oc)

NextStack ==
    \/ \E instruction \in OfVariant("CALL") : Execute(instruction)
    \/ \E instruction \in OfVariant("RET") : Execute(instruction)
    \/ \E instruction \in OfVariant("PUSH") : Execute(instruction)
    \/ \E instruction \in OfVariant("POP") : Execute(instruction)
    \/ \E value \in StackValues : Push(value)
    \/ Pop

SpecStack == InitStack /\ [][NextStack]_vars

\* The call c was execute() of an `op` whose condition held, on a running CPU.
TakenBy(c, op) ==
    /\ c.call = "execute"
    /\ c.instruction.op = op
    /\ ~c.pre.is_halted
    /\ should_jump(c.instruction.x, c.pre.registers.f)

\* C1: a CALL whose condition holds completes, and a RET whose condition
\* holds right after it completes with pc = (pc of the CALL + 3) mod 65536
\* and sp as it was before the CALL, for every pc, sp and memory.
C1_CallRetRestores ==
    /\ TakenBy(last, "CALL") => failure = "none"
    /\ (TakenBy(last, "RET") /\ TakenBy(prev, "CALL")) =>
          /\ failure = "none"
          /\ pc = (prev.pre.pc + 3) % U16_MODULUS
          /\ sp = prev.pre.sp

\* C2: for every value v and every sp, push(v) completes, and pop() right
\* after it returns v and leaves sp as it was before the push.
C2_PushPopSymmetry ==
    /\ last.call = "push" => failure = "none"
    /\ (last.call = "pop" /\ prev.call = "push") =>
          /\ failure = "none"
          /\ last.ret = prev.value
          /\ sp = prev.pre.sp

----------------------------------------------------------------------------
(* Fetch, decode, execute: step(), decode() and the instructions without   *)
(* operands.                                                               *)

\* 0x0100, 0x7FFF (the byte after the opcode is in the video sub-range),
\* 0xFFFE, 0xFFFF
StepPcs == {256, 32767, 65534, 65535}

\* The byte at pc: 0x00, 0x02, 0xCB (the prefix), 0xFF
StepOpcodes == {0, 2, PREFIX_BYTE, 255}

\* The byte after it: 0x02, 0x7C
StepOperands == {2, 124}

InitStep ==
    \E at \in StepPcs, b0 \in StepOpcodes, b1 \in StepOperands,
       halted \in BOOLEAN, oc \in BOOLEAN :
        StartAs([LoadBytes(PowerOn, at, b0, b1, 0) EXCEPT
                    !.pc = at, !.sp = 65534, !.is_halted = halted],
                EMPTY_TILE_SHADE, oc)

NextStep ==
    \/ Step
    \/ \E b \in StepOpcodes, prefixed \in BOOLEAN : Decode(b, prefixed)
    \/ Execute(NOP)
    \/ Execute(HALT)

Spec == InitStep /\ [][NextStep]_vars

\* C6: decode of a byte without a table entry returns a value to its caller
\* and does not abort the process.
C6_DecodeReturnsIllegalOpcode ==
    (last.call = "decode" /\ from_opcode(last.value, last.prefixed) = {}) =>
        failure = "none"

\* C7: step() on a halted CPU completes and leaves pc, sp, the registers and
\* flags, bus memory, video memory and the halted state as they were.
C7_HaltedStepIsNoOp ==
    (last.call = "step" /\ last.pre.is_halted) => Machine = last.pre

----------------------------------------------------------------------------
(* Conditional JP.                                                         *)

\* The byte the address space holds at address: the cell of the array the
\* bus gives the address to.
ByteAt(m, address) ==
    IF InVramArm(address) THEN Load(m.gpu_memory, get_vram_address(address), 0)
    ELSE Load(m.memory, address, 0)

FlagStates ==
    {[ZeroFlags EXCEPT !.zero = z, !.carry = c] : z \in BOOLEAN, c \in BOOLEAN}

InitJump ==
    \E at \in StackPcs, f \in FlagStates, oc \in BOOLEAN :
        StartAs([StackProgram(at) EXCEPT !.pc = at, !.sp = 65534,
                                         !.registers = StackRegisters(f)],
                EMPTY_TILE_SHADE, oc)

NextJump == \E instruction \in OfVariant("JP") : Execute(instruction)

SpecJump == InitJump /\ [][NextJump]_vars

\* C9: a JP completes; with its condition true pc becomes the 16-bit value
\* whose low byte is at pc + 1 and whose high byte is at pc + 2, with its
\* condition false pc becomes (pc + 3) mod 65536; registers, flags, sp and
\* memory stay as they were.
C9_ConditionalJump ==
    (last.call = "execute" /\ last.instruction.op = "JP"
        /\ ~last.pre.is_halted) =>
        LET p == last.pre
            taken == should_jump(last.instruction.x, p.registers.f)
        IN  /\ failure = "none"
            /\ pc = IF taken
                    THEN get_u16(ByteAt(p, (p.pc + 2) % U16_MODULUS),
                                 ByteAt(p, (p.pc + 1) % U16_MODULUS))
                    ELSE (p.pc + 3) % U16_MODULUS
            /\ registers = p.registers
            /\ sp = p.sp
            /\ memory = p.memory
            /\ gpu_memory = p.gpu_memory
            /\ tiles = p.tiles
            /\ is_halted = p.is_halted

----------------------------------------------------------------------------
(* ADD with register C, over every accumulator and every operand value.    *)

\* 0x00FF and 0xFFFF (pc + 1 wraps)
AluPcs == {255, 65535}

InitAlu ==
    \E a \in U8, c \in U8, at \in AluPcs :
        StartAs([PowerOn EXCEPT !.pc = at, !.sp = 65534,
                    !.registers = [StackRegisters(SetFlags) EXCEPT
                                      !.a = a, !.c = c]],
                EMPTY_TILE_SHADE, TRUE)

NextAlu ==
    \E instruction \in {i \in OfVariant("ADD") : i.x = "C"} :
        Execute(instruction)

SpecAlu == InitAlu /\ [][NextAlu]_vars

\* The call c was execute() of ADD with register C on a running CPU.
AddC(c) ==
    /\ c.call = "execute"
    /\ c.instruction = ADD("C")
    /\ ~c.pre.is_halted

\* C8: ADD with register C completes with the accumulator (a + c) mod 256,
\* zero = (result = 0), subtract = false, half-carry = ((a & 0xF) + (c & 0xF)
\* > 0xF), carry = (a + c > 0xFF) and pc advanced by 1 modulo 65536; so
\* a = 0x0F, c = 0x01 gives zero false, half-carry true, carry false, and
\* a = 0xFF, c = 0x01 gives 0x00 with zero, half-carry and carry true.
C8_AddRegisterC ==
    AddC(last) =>
        LET a == last.pre.registers.a
            c == last.pre.registers.c
            result == (a + c) % 256
            f == registers.f
        IN  /\ failure = "none"
            /\ registers.a = result
            /\ f.zero = (result = 0)
            /\ f.subtract = FALSE
            /\ f.half_carry = ((a % 16) + (c % 16) > 15)
            /\ f.carry = (a + c > 255)
            /\ pc = (last.pre.pc + 1) % 65536
            /\ (a = 15 /\ c = 1) =>
                  (~f.zero /\ f.half_carry /\ ~f.carry)
            /\ (a = 255 /\ c = 1) =>
                  (result = 0 /\ f.zero /\ f.half_carry /\ f.carry)

\* 0xFF + 0x01 was added at pc 0xFFFF: the accumulator is 0x00, zero and
\* carry are set and pc has wrapped to 0x0000.
C8_Witness ==
    /\ AddC(last)
    /\ last.pre.registers.a = 255
    /\ last.pre.registers.c = 1
    /\ last.pre.pc = 65535
    /\ registers.a = 0
    /\ registers.f.zero
    /\ registers.f.carry
    /\ pc = 0

----------------------------------------------------------------------------
(* The video unit on its own: write_memory and read_memory by offset.      *)

\* 0x0000 .. 0x0003 (two rows of tile 0), 0x0010, 0x0011 (tile 1), 0x17FE,
\* 0x17FF (the last row of tile 383), 0x1800 (the first offset that is not
\* tile data), 0x1FFF (the last cell), 0x2000 (beyond it)
GpuOffsets == {0, 1, 2, 3, 16, 17, 6142, 6143, 6144, 8191, 8192}

\* 0x00, 0x80, 0xFF, 0xA5, 0xCC
GpuValues == {0, 128, 255, 165, 204}

InitGpu == StartAs(PowerOn, EMPTY_TILE_SHADE, TRUE)

NextGpu ==
    \E address \in GpuOffsets :
        \/ ReadMemory(address)
        \/ \E value \in GpuValues : WriteMemory(address, value)

SpecGpu == InitGpu /\ [][NextGpu]_vars

\* The shade the specification calls "3", "2", "1", "0": the four shades by
\* luminance, which is the order (both bits, ..., no bit) in which the
\* specification's table and the match of write_memory list their cases.
ShadeOfIndex ==
    [i \in {"0", "1", "2", "3"} |->
        CASE i = "3" -> "White"
          [] i = "1" -> "Gray"
          [] i = "2" -> "Light"
          [] i = "0" -> "Black"]

\* The specification's table from (high, low) to the shade index.
IndexOfPlanes(high, low) ==
    CASE high /\ low   -> "3"
      [] high /\ ~low  -> "1"
      [] ~high /\ low  -> "2"
      [] ~high /\ ~low -> "0"

\* The last call was write_memory at an offset of the tile data.
TileWrite == last.call = "write_memory" /\ last.address < TILE_DATA_END

\* The row of the tile cache the last write addressed, and the two bytes now
\* stored at the even offset of that row and at the odd offset after it.
WrittenRow ==
    TileRow(Machine, last.address \div 16, (last.address % 16) \div 2)
EvenByte == Load(gpu_memory, last.address - (last.address % 2), 0)
OddByte == Load(gpu_memory, last.address - (last.address % 2) + 1, 0)

\* Column k (0 the leftmost) of the written row is the table's shade for
\* bit 7 - k of the plane bytes high and low.
RowIsDecodeOf(high, low) ==
    \A k \in 0 .. 7 :
        WrittenRow[k + 1] =
            ShadeOfIndex[IndexOfPlanes(Bit(high, 7 - k) = 1, Bit(low, 7 - k) = 1)]

\* With 0b10000000 in both bytes of the row, column 0 has the shade of both
\* bits set and columns 1..7 the shade of both bits clear.
LeftmostPixelCase ==
    (EvenByte = 128 /\ OddByte = 128) =>
        /\ WrittenRow[1] = ShadeOfIndex["3"]
        /\ \A k \in 1 .. 7 : WrittenRow[k + 1] = ShadeOfIndex["0"]

\* C10 as stated: after write_memory at an offset below 0x1800 the addressed
\* row is the decode of the byte at the even offset as the low plane and the
\* byte at the odd offset as the high plane.
C10_EvenByteIsLowPlane ==
    TileWrite =>
        /\ failure = "none"
        /\ RowIsDecodeOf(OddByte, EvenByte)
        /\ LeftmostPixelCase

\* C10 as amended: after write_memory at an offset below 0x1800 the addressed
\* row is the decode of the byte at the even offset as the high plane and the
\* byte at the odd offset as the low plane, by the same table.
C10_EvenByteIsHighPlane ==
    TileWrite =>
        /\ failure = "none"
        /\ RowIsDecodeOf(EvenByte, OddByte)
        /\ LeftmostPixelCase

\* 0b10000000 was written at offset 0 and then at offset 1: row 0 of tile 0
\* is one pixel of "3" and seven of "0".
C10_Witness ==
    /\ TileWrite
    /\ last.address = 1
    /\ prev.call = "write_memory"
    /\ prev.address = 0
    /\ EvenByte = 128
    /\ OddByte = 128
    /\ WrittenRow = <<"White", "Black", "Black", "Black", "Black", "Black",
                      "Black", "Black">>

\* 0xA5 is at the even offset and 0xCC at the odd one: the row holds each of
\* the four shades.
C10_WitnessMixed ==
    /\ TileWrite
    /\ EvenByte = 165
    /\ OddByte = 204
    /\ WrittenRow = <<"White", "Light", "Gray", "Black", "Light", "White",
                      "Black", "Gray">>

----------------------------------------------------------------------------
(* The flag byte: the two conversions between FlagsRegister and u8.        *)

\* u8::from(self.registers.f), as PUSH AF calls it
U8From ==
    /\ CanCall
    /\ Becomes(Machine,
               Call("u8_from", NoInstruction, 0, 0, FlagsToU8(registers.f)))

\* self.registers.f = FlagsRegister::from(byte), as POP AF calls it
FlagsRegisterFrom(byte) ==
    /\ CanCall
    /\ Becomes([Machine EXCEPT !.registers.f = FlagsFromU8(byte)],
               Call("flags_from", NoInstruction, 0, byte, 0))

InitFlags ==
    \E f \in FlagsRegisters :
        StartAs([PowerOn EXCEPT !.registers.f = f], EMPTY_TILE_SHADE, TRUE)

\* Every high nibble, over a low nibble of 0x0 and of 0xF.
FlagBytes == {16 * h + l : h \in 0 .. 15, l \in {0, 15}}

NextFlags ==
    \/ U8From
    \/ \E byte \in FlagBytes : FlagsRegisterFrom(byte)

SpecFlags == InitFlags /\ [][NextFlags]_vars

\* b & 0xF0
HighNibble(b) == b - (b % 16)

\* C11: the byte of a flag combination has zero, subtract, half-carry and
\* carry at bits 7, 6, 5, 4 and unpacking it gives the combination back; the
\* byte packed from the flags unpacked from a byte b is b & 0xF0.
C11_FlagRoundTrip ==
    /\ last.call = "u8_from" =>
          LET f == last.pre.registers.f
          IN  last.ret = 128 * B2N(f.zero) + 64 * B2N(f.subtract)
                         + 32 * B2N(f.half_carry) + 16 * B2N(f.carry)
    /\ (last.call = "flags_from" /\ prev.call = "u8_from"
            /\ last.value = prev.ret) =>
          registers.f = prev.pre.registers.f
    /\ (last.call = "u8_from" /\ prev.call = "flags_from") =>
          last.ret = HighNibble(prev.value)

\* The flags zero and half-carry were packed to 0xA0 and unpacked again.
C11_Witness ==
    /\ last.call = "flags_from"
    /\ prev.call = "u8_from"
    /\ prev.ret = 160
    /\ last.value = 160
    /\ registers.f = [zero |-> TRUE, subtract |-> FALSE, half_carry |-> TRUE,
                      carry |-> FALSE]

\* The byte 0x5F was unpacked and packed again to 0x50.
C11_WitnessByte ==
    /\ last.call = "u8_from"
    /\ prev.call = "flags_from"
    /\ prev.value = 95
    /\ last.ret = 80

----------------------------------------------------------------------------
(* The register pairs: get_bc, set_bc, get_de, set_de, get_hl, set_hl.     *)

RegisterPairs == {"BC", "DE", "HL"}

\* The name of the getter and of the setter of a pair.
GetterOf == [BC |-> "get_bc", DE |-> "get_de", HL |-> "get_hl"]
SetterOf == [BC |-> "set_bc", DE |-> "set_de", HL |-> "set_hl"]

\* self.registers.get_bc(), get_de() or get_hl()
GetPair(pair) ==
    /\ CanCall
    /\ LET value == CASE pair = "BC" -> get_bc(registers)
                      [] pair = "DE" -> get_de(registers)
                      [] pair = "HL" -> get_hl(registers)
       IN  Becomes(Machine, Call(GetterOf[pair], NoInstruction, 0, 0, value))

\* self.registers.set_bc(value), set_de(value) or set_hl(value)
SetPair(pair, value) ==
    /\ CanCall
    /\ LET r == CASE pair = "BC" -> set_bc(registers, value)
                  [] pair = "DE" -> set_de(registers, value)
                  [] pair = "HL" -> set_hl(registers, value)
       IN  Becomes([Machine EXCEPT !.registers = r],
                   Call(SetterOf[pair], NoInstruction, 0, value, 0))

\* Each byte of the value is one of 0x00, 0x12, 0x80, 0xFF.
PairValues == {256 * h + l : h \in {0, 18, 128, 255}, l \in {0, 18, 128, 255}}

InitPairs ==
    \E f \in {ZeroFlags, SetFlags} :
        StartAs([PowerOn EXCEPT !.registers = StackRegisters(f)],
                EMPTY_TILE_SHADE, TRUE)

NextPairs ==
    \E pair \in RegisterPairs :
        \/ GetPair(pair)
        \/ \E value \in PairValues : SetPair(pair, value)

SpecPairs == InitPairs /\ [][NextPairs]_vars

\* The first-named and the second-named register of a pair.
FirstOf(pair) == CASE pair = "BC" -> "b" [] pair = "DE" -> "d" [] pair = "HL" -> "h"
SecondOf(pair) == CASE pair = "BC" -> "c" [] pair = "DE" -> "e" [] pair = "HL" -> "l"

\* C12: set_P(v) puts the high byte of v in the first-named register of P and
\* the low byte in the second, and leaves every other register and the flags
\* as they were; get_P() right after it returns v.
C12_PairRoundTrip ==
    \A pair \in RegisterPairs :
        /\ last.call = SetterOf[pair] =>
              /\ registers[FirstOf(pair)] = last.value \div 256
              /\ registers[SecondOf(pair)] = last.value % 256
              /\ \A name \in DOMAIN registers \ {FirstOf(pair), SecondOf(pair)} :
                    registers[name] = last.pre.registers[name]
        /\ (last.call = GetterOf[pair] /\ prev.call = SetterOf[pair]) =>
              last.ret = prev.value

\* set_hl(0x12FF) and then get_hl(): 0x12 is in h, 0xFF in l, and 0x12FF is
\* returned.
C12_Witness ==
    /\ last.call = "get_hl"
    /\ prev.call = "set_hl"
    /\ prev.value = 4863
    /\ registers.h = 18
    /\ registers.l = 255
    /\ last.ret = 4863

----------------------------------------------------------------------------
(* step() when the decode of the fetched byte fails.                       *)

\* step() on machine p fetches its opcode byte without a failure and the
\* table has no instruction for it.
DecodeFails(p) ==
    LET first == read_byte(p, p.pc)
        prefixed == first.v = PREFIX_BYTE
        a1 == checked_add(first.m, p.pc, 1)
        second == read_byte(a1.m, a1.v)
        fetched == IF Ok(first.m) /\ prefixed THEN second ELSE first
    IN  Ok(fetched.m) /\ from_opcode(fetched.v, prefixed) = {}

\* C13: when the decode of the byte step() fetched fails, registers, flags,
\* pc, sp, plain memory, video memory, the tile cache and the halted state
\* are as before the call, and the CPU takes further calls.
C13_StepAtomicOnDecodeFailure ==
    (last.call = "step" /\ DecodeFails(last.pre)) => Machine = last.pre

----------------------------------------------------------------------------
(* LD: the byte loads and the loads that execute() leaves to todo!().      *)

\* 0x0100, 0xFFFE (the operand byte is at 0xFFFF), 0xFFFF (pc + 1 wraps)
LoadPcs == {256, 65534, 65535}

\* HL: 0xC000 (plain memory), 0x0101 (the operand byte of an LD at 0x0100),
\* 0x8000 (tile data), 0x9FFF (the last address of the video sub-range),
\* 0xFFFF
LoadHls == {49152, 257, 32768, 40959, 65535}

\* The operand byte after the opcode is 0x42 and the byte at HL is 0x99.
LoadProgram(at, hl) ==
    LoadByte(LoadByte(PowerOn, wrapping_add(at, 1), 66), hl, 153)

InitLoad ==
    \E at \in LoadPcs, hl \in LoadHls, oc \in BOOLEAN :
        StartAs([LoadProgram(at, hl) EXCEPT
                    !.pc = at, !.sp = 65534,
                    !.registers = set_hl(StackRegisters(SetFlags), hl)],
                EMPTY_TILE_SHADE, oc)

NextLoad == \E instruction \in OfVariant("LD") : Execute(instruction)

SpecLoad == InitLoad /\ [][NextLoad]_vars

\* The call c was execute() of an LD of the given LoadType on a running CPU.
LoadBy(c, kind) ==
    /\ c.call = "execute"
    /\ c.instruction.op = "LD"
    /\ c.instruction.kind = kind
    /\ ~c.pre.is_halted

\* C14: execute() of an LD with LoadType::FromA or LoadType::ToA returns a
\* condition to its caller and does not abort the process.
C14_UnimplementedLoadIsNonFatal ==
    (LoadBy(last, "FromA") \/ LoadBy(last, "ToA")) => failure = "none"

----------------------------------------------------------------------------
(* The additions on pc.                                                    *)

\* C15: no step() or execute() fails on an overflow of pc, and a taken JP
\* that completes has read its operand at (pc + 1) mod 65536 and
\* (pc + 2) mod 65536, for every pc.
C15_PcArithmeticWraps ==
    /\ last.call \in {"step", "execute"} => failure # ADD_OVERFLOW
    /\ (TakenBy(last, "JP") /\ failure = "none") =>
          pc = get_u16(ByteAt(last.pre, (last.pre.pc + 2) % U16_MODULUS),
                       ByteAt(last.pre, (last.pre.pc + 1) % U16_MODULUS))

----------------------------------------------------------------------------
(* PUSH.                                                                   *)

\* The 16-bit value of a PushSource in registers r: the first-named register
\* is the high byte; the low byte of AF is the flags at bits 7, 6, 5, 4.
PairValue(r, source) ==
    CASE source = "BC" -> 256 * r.b + r.c
      [] source = "DE" -> 256 * r.d + r.e
      [] source = "HL" -> 256 * r.h + r.l
      [] source = "AF" -> 256 * r.a + 128 * B2N(r.f.zero)
                          + 64 * B2N(r.f.subtract) + 32 * B2N(r.f.half_carry)
                          + 16 * B2N(r.f.carry)

\* The call c was execute() of the variant op on a running CPU.
ExecutedBy(c, op) ==
    /\ c.call = "execute"
    /\ c.instruction.op = op
    /\ ~c.pre.is_halted

\* C16: a PUSH completes for every sp with the high byte of its source at
\* (sp - 1) mod 65536 and the low byte at (sp - 2) mod 65536, sp two lower
\* modulo 65536, pc one higher, and the registers and flags as they were.
C16_PushWritesHighThenLow ==
    ExecutedBy(last, "PUSH") =>
        LET p == last.pre
            value == PairValue(p.registers, last.instruction.x)
        IN  /\ failure = "none"
            /\ ByteAt(Machine, (p.sp + U16_MODULUS - 1) % U16_MODULUS)
                  = value \div 256
            /\ ByteAt(Machine, (p.sp + U16_MODULUS - 2) % U16_MODULUS)
                  = value % 256
            /\ sp = (p.sp + U16_MODULUS - 2) % U16_MODULUS
            /\ pc = (p.pc + 1) % U16_MODULUS
            /\ registers = p.registers

----------------------------------------------------------------------------
(* AF on the stack: POP AF of every low byte, and PUSH AF.                 *)

\* 0xC000 (plain memory), 0x8000 (tile data), 0xFFFE (the high byte of the
\* word would be at 0xFFFF)
FlagStackSps == {49152, 32768, 65534}

\* The high byte of the word on the stack: 0x00, 0x12, 0xFF
FlagStackHighBytes == {0, 18, 255}

InitFlagStack ==
    \E s \in FlagStackSps, low \in U8, high \in FlagStackHighBytes :
        StartAs([LoadByte(LoadByte(PowerOn, s, low), wrapping_add(s, 1), high)
                    EXCEPT !.pc = 256, !.sp = s,
                           !.registers = StackRegisters(ZeroFlags)],
                EMPTY_TILE_SHADE, TRUE)

NextFlagStack ==
    \/ \E instruction \in {i \in OfVariant("POP") : i.x = "AF"} :
          Execute(instruction)
    \/ \E instruction \in {i \in OfVariant("PUSH") : i.x = "AF"} :
          Execute(instruction)

SpecFlagStack == InitFlagStack /\ [][NextFlagStack]_vars

\* The call c was execute() of `op` with AF on a running CPU, and it
\* completed.
DoneWithAF(c, op) ==
    /\ ExecutedBy(c, op)
    /\ c.instruction.x = "AF"
    /\ failure = "none"

\* C17: the packed flag byte has a zero low nibble in every state; after
\* POP AF of the stack word w the accumulator is the high byte of w and the
\* flags are bits 7..4 of its low byte; PUSH AF writes a low byte with bits
\* 3..0 clear, and right after that POP AF it writes w & 0x00F0.
C17_FlagByteLowNibbleZero ==
    /\ FlagsToU8(registers.f) % 16 = 0
    /\ DoneWithAF(last, "POP") =>
          LET p == last.pre
              low == ByteAt(p, p.sp)
              high == ByteAt(p, (p.sp + 1) % U16_MODULUS)
          IN  /\ registers.a = high
              /\ registers.f = [zero       |-> (low \div 128) % 2 = 1,
                                subtract   |-> (low \div 64) % 2 = 1,
                                half_carry |-> (low \div 32) % 2 = 1,
                                carry      |-> (low \div 16) % 2 = 1]
    /\ DoneWithAF(last, "PUSH") =>
          /\ ByteAt(Machine, sp) % 16 = 0
          /\ ByteAt(Machine, (sp + 1) % U16_MODULUS) = last.pre.registers.a
    /\ (DoneWithAF(last, "PUSH") /\ ExecutedBy(prev, "POP")
            /\ prev.instruction.x = "AF") =>
          LET low == ByteAt(prev.pre, prev.pre.sp)
          IN  /\ sp = prev.pre.sp
              /\ ByteAt(Machine, sp) = low - (low % 16)

\* POP AF of 0x12FF and then PUSH AF: the accumulator is 0x12, the four
\* flags are set and the low byte on the stack is 0xF0.
C17_Witness ==
    /\ DoneWithAF(last, "PUSH")
    /\ ExecutedBy(prev, "POP")
    /\ prev.instruction.x = "AF"
    /\ ByteAt(prev.pre, prev.pre.sp) = 255
    /\ registers.a = 18
    /\ registers.f = SetFlags
    /\ ByteAt(Machine, sp) = 240

----------------------------------------------------------------------------
(* Conditional CALL.                                                       *)

\* C18: a CALL completes with the registers and flags as they were; with
\* its condition true the return address (pc + 3) mod 65536 is on the stack,
\* high byte at (sp - 1) mod 65536 and low byte at (sp - 2) mod 65536, sp is
\* two lower and pc is the 16-bit value whose low byte was at pc + 1 and
\* whose high byte was at pc + 2; with its condition false pc is
\* (pc + 3) mod 65536 and sp and all memory are as they were.
C18_ConditionalCall ==
    ExecutedBy(last, "CALL") =>
        LET p == last.pre
            taken == should_jump(last.instruction.x, p.registers.f)
            return_address == (p.pc + 3) % U16_MODULUS
        IN  /\ failure = "none"
            /\ registers = p.registers
            /\ taken =>
                  /\ sp = (p.sp + U16_MODULUS - 2) % U16_MODULUS
                  /\ ByteAt(Machine, (p.sp + U16_MODULUS - 1) % U16_MODULUS)
                        = return_address \div 256
                  /\ ByteAt(Machine, sp) = return_address % 256
                  /\ pc = get_u16(ByteAt(p, (p.pc + 2) % U16_MODULUS),
                                  ByteAt(p, (p.pc + 1) % U16_MODULUS))
            /\ ~taken =>
                  /\ pc = return_address
                  /\ sp = p.sp
                  /\ memory = p.memory
                  /\ gpu_memory = p.gpu_memory

----------------------------------------------------------------------------
(* Byte LD.                                                                *)

\* The field of Registers a LoadByteTarget or LoadByteSource names.
RegisterOf ==
    [A |-> "a", B |-> "b", C |-> "c", D |-> "d", E |-> "e", H |-> "h",
     L |-> "l"]

\* The address in HL of registers r.
AddressInHL(r) == 256 * r.h + r.l

\* The value a byte LD of `source` is to load on machine p.
SourceValue(p, source) ==
    CASE source = "D8"  -> ByteAt(p, (p.pc + 1) % U16_MODULUS)
      [] source = "HLI" -> ByteAt(p, AddressInHL(p.registers))
      [] OTHER          -> p.registers[RegisterOf[source]]

\* C19: a byte LD completes with the source value (a register, the byte at
\* pc + 1, or the byte at address HL as it was before the call) in its
\* target (a register or the byte at address HL), pc two higher for an
\* immediate source and one higher otherwise, and the flags, sp, every other
\* register and every other memory cell as they were.
C19_ByteLoad ==
    LoadBy(last, "Byte") =>
        LET p == last.pre
            target == last.instruction.x
            source == last.instruction.y
            value == SourceValue(p, source)
            hl == AddressInHL(p.registers)
        IN  /\ failure = "none"
            /\ pc = (p.pc + (IF source = "D8" THEN 2 ELSE 1)) % U16_MODULUS
            /\ sp = p.sp
            /\ registers.f = p.registers.f
            /\ IF target = "HLI"
               THEN /\ ByteAt(Machine, hl) = value
                    /\ registers = p.registers
                    /\ IF InVramArm(hl)
                       THEN /\ memory = p.memory
                            /\ gpu_memory = Store(p.gpu_memory,
                                                  get_vram_address(hl), value, 0)
                       ELSE /\ gpu_memory = p.gpu_memory
                            /\ memory = Store(p.memory, hl, value, 0)
               ELSE /\ registers =
                          [p.registers EXCEPT ![RegisterOf[target]] = value]
                    /\ memory = p.memory
                    /\ gpu_memory = p.gpu_memory

----------------------------------------------------------------------------
(* ADD with each ArithmeticTarget.                                         *)

\* The accumulator: 0x00, 0x0F, 0x80, 0xFF
AddAccumulators == {0, 15, 128, 255}

InitAdd ==
    \E a \in AddAccumulators, at \in AluPcs, f \in {ZeroFlags, SetFlags} :
        StartAs([PowerOn EXCEPT !.pc = at, !.sp = 65534,
                    !.registers = [StackRegisters(f) EXCEPT !.a = a]],
                EMPTY_TILE_SHADE, TRUE)

NextAdd == \E instruction \in OfVariant("ADD") : Execute(instruction)

SpecAdd == InitAdd /\ [][NextAdd]_vars

\* The value of the register an ArithmeticTarget names in registers r; for F
\* the packed flag byte.
OperandValue(r, target) ==
    IF target = "F" THEN PairValue(r, "AF") % 256
    ELSE r[RegisterOf[target]]

\* C20: ADD with any ArithmeticTarget completes with the accumulator the sum
\* modulo 256 of the accumulator and that register, the four flags set from
\* that sum, and pc one higher.
C20_AddAnyRegister ==
    ExecutedBy(last, "ADD") =>
        LET p == last.pre
            a == p.registers.a
            operand == OperandValue(p.registers, last.instruction.x)
            result == (a + operand) % 256
        IN  /\ failure = "none"
            /\ registers.a = result
            /\ registers.f = [zero       |-> result = 0,
                              subtract   |-> FALSE,
                              half_carry |-> (a % 16) + (operand % 16) > 15,
                              carry      |-> a + operand > 255]
            /\ pc = (p.pc + 1) % U16_MODULUS

----------------------------------------------------------------------------
(* HALT and the halted state.                                              *)

\* One or more instructions of every variant: both ADD arms, a taken and an
\* untaken CALL, a byte LD to (HL) and one from the immediate, the two LD
\* types left to todo!(), PUSH and POP of BC and of AF.
HaltInstructions ==
    {i \in Instruction :
        \/ i.op \in {"HALT", "NOP"}
        \/ i.op = "ADD" /\ i.x \in {"B", "C"}
        \/ i.op \in {"JP", "RET"} /\ i.x = "Always"
        \/ i.op = "CALL" /\ i.x \in {"Always", "Zero"}
        \/ i.op = "LD" /\ i.kind = "Byte" /\ i.x = "HLI" /\ i.y = "A"
        \/ i.op = "LD" /\ i.kind = "Byte" /\ i.x = "A" /\ i.y = "D8"
        \/ i.op = "LD" /\ i.kind = "FromA" /\ i.x = "BC"
        \/ i.op = "LD" /\ i.kind = "ToA" /\ i.x = "D16"
        \/ i.op \in {"PUSH", "POP"} /\ i.x \in {"BC", "AF"}}

\* pc 0x0100 and 0xFFFF, sp 0x0000 and 0xFFFE: a running CPU aborts on a
\* PUSH at sp 0x0000 and on an operand read at pc 0xFFFF.
InitHalt ==
    \E at \in {256, 65535}, s \in {0, 65534}, halted \in BOOLEAN :
        StartAs([LoadProgram(at, 49152) EXCEPT
                    !.pc = at, !.sp = s, !.is_halted = halted,
                    !.registers = set_hl(StackRegisters(ZeroFlags), 49152)],
                EMPTY_TILE_SHADE, TRUE)

NextHalt == \E instruction \in HaltInstructions : Execute(instruction)

SpecHalt == InitHalt /\ [][NextHalt]_vars

\* C21: HALT on a running CPU sets is_halted and leaves pc and everything
\* else as it was; execute() of any instruction on a halted CPU completes,
\* returns the unchanged pc and leaves registers, flags, sp, memory and
\* is_halted as they were.
C21_HaltIsAbsorbing ==
    /\ ExecutedBy(last, "HALT") =>
          Machine = [last.pre EXCEPT !.is_halted = TRUE]
    /\ (last.call = "execute" /\ last.pre.is_halted) =>
          /\ Machine = last.pre
          /\ last.ret = last.pre.pc
          /\ is_halted

\* HALT at sp 0x0000 and then PUSH BC: nothing was pushed and the CPU is
\* halted.
C21_Witness ==
    /\ ExecutedBy(prev, "HALT")
    /\ last.call = "execute"
    /\ last.instruction.op = "PUSH"
    /\ last.pre.is_halted
    /\ last.pre.sp = 0
    /\ sp = 0
    /\ is_halted
    /\ failure = "none"

----------------------------------------------------------------------------
(* What write_memory leaves alone.                                         *)

\* The maps f and g hold the same value in every cell but `cell`.
SameExceptAt(f, g, cell, fill) ==
    \A k \in (DOMAIN f \cup DOMAIN g) \ {cell} :
        Load(f, k, fill) = Load(g, k, fill)

\* C22: write_memory at an offset of 0x1800 or more changes no tile row; at
\* an offset below 0x1800 the tile offset / 16 is one of 0..383 and no row
\* changes but row (offset mod 16) / 2 of that tile; in both cases no byte
\* of video memory changes but the one at the offset.
C22_WriteMemoryFrame ==
    last.call = "write_memory" =>
        LET offset == last.address
            tile == offset \div 16
            row == (offset % 16) \div 2
        IN  /\ SameExceptAt(gpu_memory, last.pre.gpu_memory, offset, 0)
            /\ failure = "none" => Load(gpu_memory, offset, 0) = last.value
            /\ offset >= TILE_DATA_END => tiles = last.pre.tiles
            /\ offset < TILE_DATA_END =>
                  /\ tile \in 0 .. TILE_COUNT - 1
                  /\ SameExceptAt(tiles, last.pre.tiles, <<tile, row>>,
                                  FillRow(tile_fill))

\* 0xFF was written at offset 1 and then at offset 3: row 1 of tile 0 has
\* changed and row 0 is as the first write left it.
C22_Witness ==
    /\ last.call = "write_memory"
    /\ last.address = 3
    /\ last.value = 255
    /\ prev.call = "write_memory"
    /\ prev.address = 1
    /\ prev.value = 255
    /\ TileRow(Machine, 0, 1) # TileRow(last.pre, 0, 1)
    /\ TileRow(Machine, 0, 0) = TileRow(last.pre, 0, 0)
    /\ TileRow(Machine, 0, 0) # FillRow(tile_fill)

\* 0xFF was written at offset 0x1800 after a write to tile data: the byte
\* is stored and the tile cache is as it was.
C22_WitnessOutsideTileData ==
    /\ last.call = "write_memory"
    /\ last.address = TILE_DATA_END
    /\ last.value = 255
    /\ Load(gpu_memory, TILE_DATA_END, 0) = 255
    /\ tiles = last.pre.tiles
    /\ tiles # EmptyMap

----------------------------------------------------------------------------
(* The tile cache against video memory, from a cache that agrees with it.  *)

\* The shade of a pixel whose two plane bits are clear: the row of a tile
\* over zeroed video memory.
ZERO_BYTES_SHADE == PixelValue(FALSE, FALSE)

\* 0x0000 .. 0x0003 (two rows of tile 0, even and odd offsets), 0x0010
\* (tile 1), 0x17FF (the last row of tile 383), 0x1800 (not tile data)
TileOffsets == {0, 1, 2, 3, 16, 6143, 6144}

\* 0x00, 0xA5, 0xCC
TileValues == {0, 165, 204}

\* Video memory is zeroed but for offsets 0 and 1, and every row of the
\* cache is the decode of its two bytes.
InitTiles ==
    \E v0 \in {0, 165}, v1 \in {0, 204} :
        StartAs(gpu_write_memory(gpu_write_memory(PowerOn, 0, v0), 1, v1),
                ZERO_BYTES_SHADE, TRUE)

NextTiles ==
    \E address \in TileOffsets, value \in TileValues :
        WriteMemory(address, value)

SpecTiles == InitTiles /\ [][NextTiles]_vars

\* The row of eight shades of the bytes at an even offset and at the odd
\* offset after it: column k (0 the leftmost) from bit 7 - k of each.
ShadesOf(even, odd) ==
    [k \in 1 .. 8 |->
        ShadeOfIndex[IndexOfPlanes(Bit(even, 8 - k) = 1, Bit(odd, 8 - k) = 1)]]

\* The rows of the cache that are held in tiles or whose bytes are held in
\* gpu_memory; every other row is the fill row over two zero bytes.
HeldRows ==
    DOMAIN tiles
    \cup {<<a \div 16, (a % 16) \div 2>> :
             a \in {b \in DOMAIN gpu_memory : b < TILE_DATA_END}}

\* C23: after any sequence of write_memory calls from a cache that agrees
\* with video memory, every row r of every tile t is the decode of the bytes
\* now at offsets 16 * t + 2 * r and 16 * t + 2 * r + 1.
C23_TileCacheConsistent ==
    /\ FillRow(tile_fill) = ShadesOf(0, 0)
    /\ \A key \in HeldRows :
          LET t == key[1]
              r == key[2]
          IN  TileRow(Machine, t, r) =
                  ShadesOf(Load(gpu_memory, 16 * t + 2 * r, 0),
                           Load(gpu_memory, 16 * t + 2 * r + 1, 0))

\* 0xCC was written at offset 3 and then 0xA5 at offset 2: row 1 of tile 0
\* holds each of the four shades, as its two bytes decode.
C23_Witness ==
    /\ last.call = "write_memory"
    /\ last.address = 2
    /\ last.value = 165
    /\ prev.call = "write_memory"
    /\ prev.address = 3
    /\ prev.value = 204
    /\ TileRow(Machine, 0, 1) = <<"White", "Light", "Gray", "Black", "Light",
                                  "White", "Black", "Gray">>

----------------------------------------------------------------------------
(* CALL when the stack meets the operand bytes.                            *)

\* C24: a CALL whose condition holds completes, for every sp, with pc the
\* 16-bit value whose low byte was at pc + 1 and whose high byte was at
\* pc + 2 before the call, also when the push writes to one of those two
\* addresses.
C24_CallJumpsToEncodedImmediate ==
    TakenBy(last, "CALL") =>
        /\ failure = "none"
        /\ pc = get_u16(ByteAt(last.pre, (last.pre.pc + 2) % U16_MODULUS),
                        ByteAt(last.pre, (last.pre.pc + 1) % U16_MODULUS))

----------------------------------------------------------------------------
(* The opcode tables as step() sees them.                                  *)

\* C25: from_opcode has no instruction for any of the 512 inputs, so from
\* every state step() ends in the failure of decode, without a call of
\* execute() and with pc as it was.
C25_StepAlwaysFailsInDecode ==
    /\ \A opcode \in U8, prefixed \in BOOLEAN :
          from_opcode(opcode, prefixed) = {}
    /\ last.call = "step" =>
          /\ failure = UNKNOWN_INSTRUCTION
          /\ pc = last.pre.pc

====
